---- MODULE Spec2Model ----
(***************************************************************************)
(* Model of parking-sensor-algorithm.c: the calibration file writer and    *)
(* reader, the threshold derivation, the presence classifier and the       *)
(* detection (debounce) loop, as one process run after another over one    *)
(* calibration file on disk.                                               *)
(*                                                                         *)
(* C floats are modelled as exact rationals extended with NaN and the two  *)
(* infinities (division by zero follows IEEE 754); binary rounding of      *)
(* finite results and the sign of zero are not modelled.  Fractions are    *)
(* kept in lowest terms, and reduced before they are multiplied.           *)
(***************************************************************************)
EXTENDS Integers, Sequences, FiniteSets, TLC

VARIABLES pc, app_config, file, written, service, th, rd, det, cp, exit_code

vars == <<pc, app_config, file, written, service, th, rd, det, cp, exit_code>>

(***************************************************************************)
(* Bounds of the model                                                     *)
(***************************************************************************)
MaxSweeps == 4        \* sweeps acquired by one get_detection call
MaxSweepLen == 2      \* envelope_metadata.data_length offered by the sensor

(***************************************************************************)
(* Program constants                                                       *)
(***************************************************************************)
MAX_DATA_SIZE == 3000
USHRT_MOD == 65536    \* uint16_t arithmetic is modulo 2^16
NBR_OF_SWEEPS == 1
FREQUENCY == 100
DEFAULT_SENSOR == 1
DEFAULT_DELAY == 10
RESULT_UNSET == 0 - 2 \* "int result = -2" / "int first_res = -2"
EOF == 0 - 1          \* fscanf's return value at end of input
EXIT_SUCCESS == 0
EXIT_FAILURE == 1
F_DECIMALS == 1000000 \* "%f" prints six digits after the decimal point

(***************************************************************************)
(* float                                                                   *)
(***************************************************************************)
Abs(x) == IF x < 0 THEN 0 - x ELSE x

RECURSIVE GCD(_, _)
GCD(a, b) == IF b = 0 THEN a ELSE GCD(b, a % b)

NaN == [k |-> "nan", n |-> 0, d |-> 0]
Inf(s) == [k |-> "inf", n |-> s, d |-> 0]

Fin(n, d) ==
    LET s == IF d < 0 THEN 0 - 1 ELSE 1
        g == GCD(Abs(n), Abs(d))
    IN  [k |-> "fin", n |-> (s * n) \div g, d |-> (s * d) \div g]

Sgn(x) == IF x.n < 0 THEN 0 - 1 ELSE IF x.n > 0 THEN 1 ELSE 0

FAdd(a, b) ==
    IF a.k = "nan" \/ b.k = "nan" THEN NaN
    ELSE IF a.k = "inf" /\ b.k = "inf" THEN (IF a.n = b.n THEN a ELSE NaN)
    ELSE IF a.k = "inf" THEN a
    ELSE IF b.k = "inf" THEN b
    ELSE LET g == GCD(a.d, b.d)
         IN  Fin(a.n * (b.d \div g) + b.n * (a.d \div g), (a.d \div g) * b.d)

FNeg(a) == IF a.k = "nan" THEN NaN ELSE [a EXCEPT !.n = 0 - a.n]

FSub(a, b) == FAdd(a, FNeg(b))

FMul(a, b) ==
    IF a.k = "nan" \/ b.k = "nan" THEN NaN
    ELSE IF a.k = "inf" \/ b.k = "inf"
         THEN (IF Sgn(a) * Sgn(b) = 0 THEN NaN ELSE Inf(Sgn(a) * Sgn(b)))
    ELSE LET g1 == GCD(Abs(a.n), b.d)
             g2 == GCD(Abs(b.n), a.d)
         IN  Fin((a.n \div g1) * (b.n \div g2), (a.d \div g2) * (b.d \div g1))

FDiv(a, b) ==
    IF a.k = "nan" \/ b.k = "nan" THEN NaN
    ELSE IF a.k = "inf" THEN (IF b.k = "inf" THEN NaN
                              ELSE Inf(IF Sgn(b) < 0 THEN 0 - a.n ELSE a.n))
    ELSE IF b.k = "inf" THEN Fin(0, 1)
    ELSE IF b.n = 0 THEN (IF a.n = 0 THEN NaN ELSE Inf(Sgn(a)))
    ELSE FMul(a, Fin(b.d, b.n))

\* a < b, a <= b, a > b, a != b of C: every ordered comparison with a NaN
\* operand is false, and != with a NaN operand is true
FLt(a, b) ==
    IF a.k = "nan" \/ b.k = "nan" THEN FALSE
    ELSE IF a.k = "inf" THEN a.n < 0 /\ ~(b.k = "inf" /\ b.n < 0)
    ELSE IF b.k = "inf" THEN b.n > 0
    ELSE LET g == GCD(a.d, b.d)
         IN  a.n * (b.d \div g) < b.n * (a.d \div g)

FEq(a, b) == a.k # "nan" /\ b.k # "nan" /\ a = b

FLe(a, b) == FLt(a, b) \/ FEq(a, b)

FGt(a, b) == FLt(b, a)

FNe(a, b) == ~FEq(a, b)

IntToFloat(i) == Fin(i, 1)

(***************************************************************************)
(* min: both arguments are converted to uint16_t                           *)
(***************************************************************************)
min(a, b) ==
    LET a16 == a % USHRT_MOD
        b16 == b % USHRT_MOD
    IN  IF a16 < b16 THEN a16 ELSE b16

(***************************************************************************)
(* car_present                                                             *)
(***************************************************************************)
car_present_strict(avg_peak_amp, avg_calib_amp, avg_amp_factor) ==
    IF FLt(avg_peak_amp, FMul(FMul(avg_calib_amp, avg_amp_factor), IntToFloat(4)))
    THEN 0
    ELSE 1

car_present(avg_peak_amp, avg_calib_amp, avg_amp_factor) ==
    IF FLe(avg_peak_amp, FMul(FMul(avg_calib_amp, avg_amp_factor), IntToFloat(4)))
    THEN 0
    ELSE 1

(***************************************************************************)
(* format_data, get_average_amplitude, get_max_peak.                       *)
(* Arrays are sequences (C index i is element i + 1).  The two scans are   *)
(* evaluated by halving the index range: the sum is associative, and       *)
(* taking the right half's maximum only when it is strictly greater keeps  *)
(* the first of equal maxima, as the left-to-right scan with ">" does; the *)
(* scan's initial max (-1, -1) is kept when nothing exceeds it.            *)
(***************************************************************************)
format_data(amp, length, start, end) ==
    LET range == FSub(end, start)
        step  == FDiv(range, IntToFloat(length))
    IN  [i \in 1..length |->
            [dist |-> FAdd(start, FMul(step, IntToFloat(i - 1))),
             amp  |-> IntToFloat(amp[i])]]

RECURSIVE SumAmp(_, _, _)
SumAmp(data, lo, hi) ==
    IF lo > hi THEN IntToFloat(0)
    ELSE IF lo = hi THEN data[lo].amp
    ELSE LET mid == (lo + hi) \div 2
         IN  FAdd(SumAmp(data, lo, mid), SumAmp(data, mid + 1, hi))

get_average_amplitude(data, length) ==
    FDiv(SumAmp(data, 1, length), IntToFloat(length))

\* the first element of data[lo..hi] that no other element exceeds
RECURSIVE MaxOf(_, _, _)
MaxOf(data, lo, hi) ==
    IF lo = hi THEN data[lo]
    ELSE LET mid   == (lo + hi) \div 2
             left  == MaxOf(data, lo, mid)
             right == MaxOf(data, mid + 1, hi)
         IN  IF FGt(right.amp, left.amp) THEN right ELSE left

get_max_peak(data, length) ==
    LET max == [dist |-> IntToFloat(0 - 1), amp |-> IntToFloat(0 - 1)]
        top == MaxOf(data, 1, length)
    IN  IF length = 0 THEN max
        ELSE IF FGt(top.amp, max.amp) THEN top ELSE max

(***************************************************************************)
(* Text of the calibration file.  A decimal numeral is modelled by the     *)
(* number it denotes: a "%f" numeral by its count of millionths, an        *)
(* integer numeral by the integer.                                         *)
(***************************************************************************)
\* printf("%f", (double)x): six digits after the point, round to nearest even
PrintF(x) ==
    LET num == x.n * F_DECIMALS
        q   == num \div x.d
        r   == num % x.d
    IN  IF 2 * r > x.d \/ (2 * r = x.d /\ q % 2 = 1) THEN q + 1 ELSE q

\* fscanf("%f", &x)
ScanF(t) == Fin(t, F_DECIMALS)

\* printf("%u", v) and printf("%d ", v) of a uint16_t promoted to int
PrintU(v) == v % USHRT_MOD
PrintD(v) == v % USHRT_MOD

\* fscanf("%u", &n) into a 32-bit unsigned: every numeral of the model is
\* below 2^31 and is read as the number it denotes
ScanU(t) == t

\* fscanf("%hu", &x) into uint16_t
ScanHU(t) == t % USHRT_MOD

NoFile ==
    [exists |-> FALSE, hdr |-> <<EOF, EOF, EOF>>, start |-> 0, length |-> 0,
     n |-> 0, tokens |-> <<>>, tail |-> "eof"]

\* fopen(name, "w") leaves an empty file
EmptyFile == [NoFile EXCEPT !.exists = TRUE]

\* hdr: what the three header fscanf calls return on this file;
\* tokens: the numerals after the header; tail: what follows them
TextFile(start, length, n, tokens, tail) ==
    [exists |-> TRUE, hdr |-> <<1, 1, 1>>, start |-> start, length |-> length,
     n |-> n, tokens |-> tokens, tail |-> tail]

(***************************************************************************)
(* Configuration                                                           *)
(***************************************************************************)
DEFAULT_START_RANGE == Fin(12, 100)
DEFAULT_LENGTH_RANGE == Fin(48, 100)

init_configuration ==
    [calibrate |-> FALSE,
     read_calibration_file |-> FALSE,
     radar_config |-> [start_range   |-> DEFAULT_START_RANGE,
                       length_range  |-> DEFAULT_LENGTH_RANGE,
                       nbr_of_sweeps |-> NBR_OF_SWEEPS,
                       frequency     |-> FREQUENCY,
                       sensor        |-> DEFAULT_SENSOR],
     time_delay |-> DEFAULT_DELAY,
     delay |-> FALSE]

\* the options given on the command line: -c, -f, -a <start>, -d <seconds>
parse_options(c, f, a, d) ==
    LET c0 == init_configuration
        c1 == IF c THEN [c0 EXCEPT !.calibrate = TRUE] ELSE c0
        c2 == IF f THEN [c1 EXCEPT !.read_calibration_file = TRUE] ELSE c1
        c3 == IF a.given THEN [c2 EXCEPT !.radar_config.start_range = a.value] ELSE c2
    IN  IF d.given THEN [c3 EXCEPT !.delay = TRUE, !.time_delay = d.value] ELSE c3

(***************************************************************************)
(* Inputs                                                                  *)
(***************************************************************************)
StartOpts ==
    {[given |-> FALSE, value |-> Fin(0, 1)],
     [given |-> TRUE, value |-> Fin(1, 10)],
     [given |-> TRUE, value |-> Fin(1, 128)]}

DelayOpts == {[given |-> FALSE, value |-> 0], [given |-> TRUE, value |-> 2]}

SweepVals == {0, 8, 10}

SweepLens == 0..MaxSweepLen

Sweeps(len) == [1..len -> SweepVals]

Garbage == {0, 7, 65535}      \* what an uninitialized uint16_t may hold

Endian == {"little", "big"}

Repeat(len, v) == [i \in 1..len |-> v]

HandMadeFiles ==
    {EmptyFile,
     [EmptyFile EXCEPT !.hdr = <<0, 1, 1>>],
     TextFile(100000, 500000, 3, <<10, 20, 30>>, "eof"),
     TextFile(120000, 300000, 2, <<2, 2>>, "eof"),
     TextFile(120000, 600000, 1, <<2>>, "eof"),
     TextFile(100000, 500000, 0, <<>>, "eof"),
     TextFile(100000, 500000, 5, <<10, 20, 30>>, "eof"),
     TextFile(100000, 500000, 5, <<10, 20, 30>>, "junk"),
     TextFile(100000, 500000, 32768, <<>>, "eof"),
     TextFile(100000, 500000, 32768, <<>>, "junk"),
     TextFile(100000, 500000, USHRT_MOD + 2, <<10, 20>>, "eof"),
     TextFile(100000, 500000, MAX_DATA_SIZE, Repeat(MAX_DATA_SIZE, 3), "eof"),
     TextFile(100000, 500000, MAX_DATA_SIZE + 1, Repeat(MAX_DATA_SIZE + 1, 3), "eof")}

(***************************************************************************)
(* State after construction: a process about to enter main, and whatever   *)
(* calibration file is on disk.                                            *)
(***************************************************************************)
NoService == [state |-> "none", data_length |-> 0]

NoRecord == [valid |-> FALSE, start |-> Fin(0, 1), length |-> Fin(0, 1),
             count |-> 0, samples |-> <<>>]

NoRead ==
    [status |-> "none", res |-> 0, stored |-> 0, oob |-> FALSE,
     start |-> Fin(0, 1), length |-> Fin(0, 1), n |-> 0, data |-> <<>>,
     n_used |-> 0, used |-> <<>>, prior |-> init_configuration.radar_config]

NoThreshold ==
    [avg_calib_amp |-> IntToFloat(0),
     peak_amp |-> [dist |-> IntToFloat(0), amp |-> IntToFloat(0)],
     avg_amp_factor |-> IntToFloat(0)]

NoDetection ==
    [first_res |-> RESULT_UNSET, result |-> RESULT_UNSET, cls |-> <<>>,
     nsweeps |-> 0, sleeps |-> 0, data_len |-> MAX_DATA_SIZE, returned |-> FALSE]

NoCall ==
    [called |-> FALSE, peak |-> IntToFloat(0), calib |-> IntToFloat(0),
     factor |-> IntToFloat(0), result |-> RESULT_UNSET]

Init ==
    /\ pc = "start"
    /\ app_config = init_configuration
    /\ file \in HandMadeFiles \cup {NoFile}
    /\ written = NoRecord
    /\ service = NoService
    /\ th = NoThreshold
    /\ rd = NoRead
    /\ det = NoDetection
    /\ cp = NoCall
    /\ exit_code = EOF

(***************************************************************************)
(* handle_fatal_error: print and exit(EXIT_FAILURE); nothing is released   *)
(***************************************************************************)
handle_fatal_error ==
    /\ pc' = "exited"
    /\ exit_code' = EXIT_FAILURE

(***************************************************************************)
(* main, up to the call of write_calibration_data or                       *)
(* read_and_calculate_threshold                                            *)
(***************************************************************************)
main ==
    /\ pc = "start"
    /\ \E c \in BOOLEAN, f \in BOOLEAN, a \in StartOpts, d \in DelayOpts,
          rss_ok \in BOOLEAN :
          LET cfg == parse_options(c, f, a, d)
          IN  /\ app_config' = cfg
              /\ IF ~rss_ok THEN handle_fatal_error
                 ELSE IF cfg.calibrate
                      THEN pc' = "write" /\ exit_code' = exit_code
                 ELSE IF cfg.read_calibration_file
                      THEN pc' = "read" /\ exit_code' = exit_code
                 ELSE pc' = "exited" /\ exit_code' = EXIT_FAILURE
    /\ UNCHANGED <<file, written, service, th, rd, det, cp>>

(***************************************************************************)
(* get_one_sweep: the length it returns; the service is left activated     *)
(***************************************************************************)
get_one_sweep(metadata_data_length, data_length) ==
    min(metadata_data_length, data_length)

(***************************************************************************)
(* write_calibration_data, and main's return after it                      *)
(***************************************************************************)
calibration_text_short(cfg, data_len, data) ==
    TextFile(PrintF(cfg.radar_config.start_range),
             PrintF(cfg.radar_config.length_range),
             PrintU(data_len),
             [i \in 1..(data_len - 1) |-> PrintD(data[i])],
             "eof")

calibration_text(cfg, data_len, data) ==
    TextFile(PrintF(cfg.radar_config.start_range),
             PrintF(cfg.radar_config.length_range),
             PrintU(data_len),
             [i \in 1..data_len |-> PrintD(data[i])],
             "eof")

write_calibration_data ==
    /\ pc = "write"
    /\ \E fout_ok \in BOOLEAN, create_ok \in BOOLEAN, meta \in SweepLens,
          next_ok \in BOOLEAN :
       \E data \in Sweeps(meta) :
          LET opened   == IF fout_ok THEN EmptyFile ELSE file
              data_len == get_one_sweep(meta, MAX_DATA_SIZE)
          IN  IF ~create_ok
              THEN /\ handle_fatal_error
                   /\ file' = opened
                   /\ written' = IF fout_ok THEN NoRecord ELSE written
                   /\ service' = NoService
              ELSE IF ~next_ok \/ ~fout_ok
              THEN /\ handle_fatal_error
                   /\ file' = opened
                   /\ written' = IF fout_ok THEN NoRecord ELSE written
                   /\ service' = [state |-> "active", data_length |-> meta]
              ELSE /\ pc' = "exited"
                   /\ exit_code' = EXIT_SUCCESS
                   /\ file' = calibration_text(app_config, data_len, data)
                   /\ written' = [valid   |-> TRUE,
                                  start   |-> app_config.radar_config.start_range,
                                  length  |-> app_config.radar_config.length_range,
                                  count   |-> data_len,
                                  samples |-> [i \in 1..data_len |-> data[i]]]
                   /\ service' = [state |-> "destroyed", data_length |-> meta]
    /\ UNCHANGED <<app_config, th, rd, det, cp>>

(***************************************************************************)
(* read_and_calculate_threshold                                            *)
(***************************************************************************)
Lesser(a, b) == IF a < b THEN a ELSE b

\* res = fscanf(..); res += fscanf(..); res += fscanf(..) in uint16_t
header_res(hdr) ==
    ((((hdr[1] % USHRT_MOD) + hdr[2]) % USHRT_MOD) + hdr[3]) % USHRT_MOD

\* for (i = 0; i < n; i++) res += fscanf(fin, "%hu", &threshold_data[i]):
\* the first `stored` calls return 1 and store a value, every later call
\* returns `failed` (EOF at end of file, 0 at a non-numeric token) and
\* stores nothing; res is a uint16_t
sample_res(stored, n, failed) ==
    (stored + (n - stored) * failed) % USHRT_MOD

\* res != n, res promoted to unsigned
count_mismatch(res, stored, n) == res # n

\* lines 338-348
adjust_config_both_ways(rc, start, length) ==
    [rc EXCEPT !.start_range  = IF FNe(start, @) THEN start ELSE @,
               !.length_range = IF FNe(length, @) THEN length ELSE @]

adjust_config(rc, start, length) ==
    [rc EXCEPT !.start_range  = IF FNe(start, @) THEN start ELSE @,
               !.length_range = IF FLt(length, @) THEN length ELSE @]

\* memset(threshold_data, 0, n) clears the first n BYTES of the uint16_t
\* array: elements 0 .. n/2 - 1, and for odd n the byte of element n/2 that
\* has the lower address
memset_zero(buf, nbytes, endian) ==
    [i \in DOMAIN buf |->
        IF 2 * i <= nbytes THEN 0
        ELSE IF 2 * i - 1 = nbytes
             THEN (IF endian = "little" THEN buf[i] - (buf[i] % 256)
                                        ELSE buf[i] % 256)
        ELSE buf[i]]

read_and_calculate_threshold ==
    /\ pc = "read"
    /\ \E g \in Garbage, endian \in Endian, smashed \in {"crash", "continue"} :
          LET start    == ScanF(file.start)
              length   == ScanF(file.length)
              n        == ScanU(file.n)
              stored   == Lesser(Len(file.tokens), n)
              failed   == IF file.tail = "eof" THEN EOF ELSE 0
              res      == sample_res(stored, n, failed)
              oob      == stored > MAX_DATA_SIZE
              kept     == Lesser(stored, MAX_DATA_SIZE)
              data     == [i \in 1..kept |-> ScanHU(file.tokens[i])]
              rc       == adjust_config(app_config.radar_config, start, length)
              n_used   == min(n, MAX_DATA_SIZE)
              buf      == [i \in 1..n_used |-> IF i <= kept THEN data[i] ELSE g]
              used     == memset_zero(buf, n_used, endian)
              th_data  == format_data(used, n_used, rc.start_range,
                                      FAdd(rc.start_range, rc.length_range))
              avg      == get_average_amplitude(th_data, n_used)
              peak     == get_max_peak(th_data, n_used)
              parsed   == [NoRead EXCEPT !.res = res, !.stored = stored,
                              !.oob = oob, !.start = start, !.length = length,
                              !.n = n, !.data = data,
                              !.prior = app_config.radar_config]
          IN  IF ~file.exists \/ header_res(file.hdr) # 3
              THEN /\ handle_fatal_error
                   /\ rd' = [NoRead EXCEPT !.status = "fatal",
                                !.prior = app_config.radar_config]
                   /\ UNCHANGED <<app_config, th>>
              ELSE IF oob /\ smashed = "crash"
              THEN /\ pc' = "crashed"
                   /\ exit_code' = exit_code
                   /\ rd' = [parsed EXCEPT !.status = "crashed"]
                   /\ UNCHANGED <<app_config, th>>
              ELSE IF count_mismatch(res, stored, n)
              THEN /\ handle_fatal_error
                   /\ rd' = [parsed EXCEPT !.status = "fatal"]
                   /\ UNCHANGED <<app_config, th>>
              ELSE /\ pc' = "detect"
                   /\ exit_code' = exit_code
                   /\ app_config' = [app_config EXCEPT !.radar_config = rc]
                   /\ rd' = [parsed EXCEPT !.status = "ok", !.n_used = n_used,
                                !.used = used]
                   /\ th' = [avg_calib_amp  |-> avg,
                             peak_amp       |-> peak,
                             avg_amp_factor |-> FDiv(peak.amp, avg)]
    /\ UNCHANGED <<file, written, service, det, cp>>

(***************************************************************************)
(* get_detection and close_sensor_service                                  *)
(***************************************************************************)
delay_always(cfg) == TRUE

delay_enabled(cfg) == cfg.delay

\* while (first_res != result)
while_cond_capped(first_res, result) ==
    first_res # result /\ first_res = RESULT_UNSET

while_cond(first_res, result) == first_res # result

\* the return value of a debounce iteration
loop_result_previous(first_res, result) == first_res

loop_result(first_res, result) == result

\* one sweep of get_detection: format_data, get_max_peak, car_present
classify(data, data_len) ==
    LET rc       == app_config.radar_config
        dp       == format_data(data, data_len, rc.start_range,
                                FAdd(rc.start_range, rc.length_range))
        avg_peak == get_max_peak(dp, data_len)
    IN  [called |-> TRUE, peak |-> avg_peak.amp, calib |-> th.avg_calib_amp,
         factor |-> th.avg_amp_factor,
         result |-> car_present(avg_peak.amp, th.avg_calib_amp, th.avg_amp_factor)]

\* lines 510-524: create the service, first sweep, first classification
get_detection ==
    /\ pc = "detect"
    /\ \E create_ok \in BOOLEAN, meta \in SweepLens, next_ok \in BOOLEAN :
       \E data \in Sweeps(meta) :
          LET data_len == get_one_sweep(meta, MAX_DATA_SIZE)
              c        == classify(data, data_len)
          IN  IF ~create_ok
              THEN /\ handle_fatal_error
                   /\ service' = NoService
                   /\ UNCHANGED <<det, cp>>
              ELSE IF ~next_ok
              THEN /\ handle_fatal_error
                   /\ service' = [state |-> "active", data_length |-> meta]
                   /\ UNCHANGED <<det, cp>>
              ELSE /\ pc' = "det_loop"
                   /\ exit_code' = exit_code
                   /\ service' = [state |-> "active", data_length |-> meta]
                   /\ cp' = c
                   /\ det' = [det EXCEPT !.result = c.result,
                                 !.cls = <<c.result>>, !.nsweeps = 1,
                                 !.data_len = data_len]
    /\ UNCHANGED <<app_config, file, written, th, rd>>

\* lines 529-542: one iteration of the debounce loop
get_detection_loop ==
    /\ pc = "det_loop"
    /\ delay_enabled(app_config)
    /\ while_cond(det.first_res, det.result)
    /\ det.nsweeps < MaxSweeps
    /\ \E next_ok \in BOOLEAN, data \in Sweeps(service.data_length) :
          LET data_len == get_one_sweep(service.data_length, det.data_len)
              c        == classify(data, data_len)
              slept    == [det EXCEPT !.first_res = det.result,
                              !.sleeps = @ + 1]
          IN  IF ~next_ok
              THEN /\ handle_fatal_error
                   /\ det' = slept
                   /\ cp' = cp
              ELSE /\ pc' = "det_loop"
                   /\ exit_code' = exit_code
                   /\ cp' = c
                   /\ det' = [slept EXCEPT
                                 !.result = loop_result(det.result, c.result),
                                 !.cls = Append(@, c.result),
                                 !.nsweeps = @ + 1, !.data_len = data_len]
    /\ UNCHANGED <<app_config, file, written, service, th, rd>>

\* lines 545-546 and main's lines 600-614
get_detection_return ==
    /\ pc = "det_loop"
    /\ ~(delay_enabled(app_config) /\ while_cond(det.first_res, det.result))
    /\ pc' = "exited"
    /\ exit_code' = EXIT_SUCCESS
    /\ service' = [service EXCEPT !.state = "destroyed"]
    /\ det' = [det EXCEPT !.returned = TRUE]
    /\ UNCHANGED <<app_config, file, written, th, rd, cp>>

(***************************************************************************)
(* The program is run again: a new process, the same disk                  *)
(***************************************************************************)
run_again ==
    /\ pc \in {"exited", "crashed"}
    /\ pc' = "start"
    /\ app_config' = init_configuration
    /\ service' = NoService
    /\ th' = NoThreshold
    /\ rd' = NoRead
    /\ det' = NoDetection
    /\ cp' = NoCall
    /\ exit_code' = EOF
    /\ UNCHANGED <<file, written>>

Next ==
    \/ main
    \/ write_calibration_data
    \/ read_and_calculate_threshold
    \/ get_detection
    \/ get_detection_loop
    \/ get_detection_return
    \/ run_again

Spec == Init /\ [][Next]_vars

\* the scheduler runs the single thread: a loop that can leave does leave
FairSpec ==
    Spec /\ WF_vars(get_detection_loop) /\ WF_vars(get_detection_return)

(***************************************************************************)
(* Properties                                                              *)
(***************************************************************************)
Cls == det.cls

HasPair == \E j \in 2..Len(Cls) : Cls[j] = Cls[j - 1]

Debounced == app_config.delay

\* C1: in debounced mode get_detection returns at the first sweep k >= 2
\* whose classification equals that of sweep k - 1, after exactly k sweeps,
\* and returns that classification; after Occupied, Empty, Empty no fourth
\* sweep is acquired.
C1_DebounceStopsAtFirstPair ==
    /\ (Debounced /\ det.returned) =>
          LET k == Len(Cls)
          IN  /\ k >= 2
              /\ Cls[k] = Cls[k - 1]
              /\ \A j \in 2..(k - 1) : Cls[j] # Cls[j - 1]
              /\ det.nsweeps = k
              /\ det.result = Cls[k]
              /\ det.result = Cls[k - 1]
    /\ (Debounced /\ Len(Cls) >= 3 /\ SubSeq(Cls, 1, 3) = <<1, 0, 0>>) =>
          /\ Len(Cls) = 3
          /\ det.nsweeps = 3
          /\ det.result = 0

C1_Witness ==
    Debounced /\ det.returned /\ Cls = <<1, 0, 0>> /\ det.result = 0

\* C2: in single-shot mode get_detection acquires one sweep, classifies it
\* once, never sleeps, and returns that classification.
C2_SingleShot ==
    ~Debounced =>
        /\ det.sleeps = 0
        /\ det.nsweeps <= 1
        /\ Len(Cls) = det.nsweeps
        /\ det.returned =>
              /\ det.nsweeps = 1
              /\ det.result = Cls[1]
              /\ det.result \in {0, 1}

C2_Witness ==
    ~Debounced /\ det.returned /\ Cls = <<1>> /\ det.result = 1 /\ det.sleeps = 0

\* C3: in debounced mode get_detection returns once two consecutive
\* classifications are equal, and only then: while the classifications
\* alternate it keeps sweeping, whatever the number of sweeps so far.
C3_ReturnsIffPair ==
    /\ (Debounced /\ pc = "det_loop" /\ HasPair) ~> det.returned
    /\ [](Debounced /\ det.returned => HasPair)
    /\ [](Debounced /\ pc = "det_loop" /\ ~HasPair =>
             ~ENABLED get_detection_return)

C3_Witness ==
    /\ Debounced
    /\ pc = "det_loop"
    /\ Len(Cls) >= 4
    /\ ~HasPair
    /\ ~det.returned

Threshold == FMul(FMul(cp.calib, cp.factor), IntToFloat(4))

Ordered == cp.peak.k # "nan" /\ Threshold.k # "nan"

HeaderParsed == file.exists /\ file.hdr = <<1, 1, 1>>

\* C5: a calibration file whose header declares n samples but which holds
\* fewer than n numerals always ends in the fatal format error and never
\* reaches the threshold derivation.
C5_ShortFileIsFatal ==
    (HeaderParsed /\ Len(file.tokens) < file.n /\ rd.status # "none") =>
        rd.status = "fatal"

RECURSIVE SumInt(_, _, _)
SumInt(s, lo, hi) ==
    IF lo > hi THEN 0
    ELSE IF lo = hi THEN s[lo]
    ELSE SumInt(s, lo, (lo + hi) \div 2) + SumInt(s, (lo + hi) \div 2 + 1, hi)

FileSamples == SubSeq(file.tokens, 1, file.n)

\* C6: after a successful read of n <= 3000 samples the threshold model is
\* derived from the sample values of the file: the baseline is their mean,
\* the peak is their greatest value and the ratio is peak / baseline.
C6_ThresholdFromFileSamples ==
    (rd.status = "ok" /\ file.n <= MAX_DATA_SIZE) =>
        /\ rd.used = FileSamples
        /\ th.avg_calib_amp =
              FDiv(IntToFloat(SumInt(FileSamples, 1, file.n)), IntToFloat(file.n))
        /\ \A i \in 1..file.n : FLe(IntToFloat(FileSamples[i]), th.peak_amp.amp)
        /\ file.n > 0 =>
              \E i \in 1..file.n : th.peak_amp.amp = IntToFloat(FileSamples[i])
        /\ th.avg_amp_factor = FDiv(th.peak_amp.amp, th.avg_calib_amp)

\* C7: a sensor service that was created is deactivated and destroyed
\* before the process ends, on every exit path.
C7_ServiceReleased ==
    pc = "exited" => service.state \in {"none", "destroyed"}

FMin(a, b) == IF FLt(b, a) THEN b ELSE a

ReadBack == written.valid /\ rd.status # "none"

Millionths(x) == FMul(x, IntToFloat(F_DECIMALS))

C10_ClampedBeforeLoad ==
    rd.status # "none" =>
        /\ ~rd.oob
        /\ rd.stored <= MAX_DATA_SIZE
        /\ rd.status = "ok" => rd.n_used = Lesser(rd.n, MAX_DATA_SIZE)

====
